---- MODULE Spec2Model ----
(***************************************************************************)
(* worker-router (src/lib.rs): an HTTP router for Cloudflare Workers.      *)
(*                                                                         *)
(* A Router owns an Arc<State> handle and an ordered Vec<Route>; a Route   *)
(* is (method, pattern, handler).  Registration (head, get, ... trace, all *)
(* delegating to insert) consumes the router and returns it with one more  *)
(* route.  run(&self, req) parses the request URL, scans the routes in     *)
(* order, and awaits the handler of the first route whose method equals    *)
(* of the request and whose pattern matches; with no such route it answers *)
(* 404 "page not found".                                                   *)
(*                                                                         *)
(* A run call is synchronous up to the handler future, so it is modelled   *)
(* in two steps: RunBegin (URL parse, scan, handler invocation) and        *)
(* HandlerReturn (the awaited future completes and run returns).           *)
(***************************************************************************)
EXTENDS Naturals, Sequences, FiniteSets

VARIABLES
    state,       \* Router.state: the Arc<State> handle
    routes,      \* Router.routes: Vec<Route<State>>
    calls,       \* the run calls: calls[c] is the position and record of call c
    registered   \* history: the registration calls made so far, in call order

vars == <<state, routes, calls, registered>>

----------------------------------------------------------------------------
(* Bounds *)

MaxRoutes == 2
MaxCalls == 2

Calls == 1..MaxCalls

----------------------------------------------------------------------------
(* Values *)

\* worker::Method, the nine variants the registration surface uses
Methods == {"HEAD", "GET", "POST", "PUT", "PATCH", "DELETE", "OPTIONS", "CONNECT", "TRACE"}

\* the two methods of the smaller serving scenarios
ServedMethods == {"GET", "POST"}

Lit(s) == [kind |-> "lit", v |-> s]
Param(n) == [kind |-> "param", v |-> n]

\* literal text the pattern parser rejects, as in path("/(")
UnparsableLiterals == {"("}

\* UrlPattern::parse accepts a template: every parameter has a name, no name
\* is used twice, and every literal parses
WellFormed(v) ==
    /\ \A k \in 1..Len(v) :
          IF v[k].kind = "param" THEN v[k].v # "" ELSE v[k].v \notin UnparsableLiterals
    /\ \A j, k \in 1..Len(v) :
          (j # k /\ v[j].kind = "param" /\ v[k].kind = "param") => v[j].v # v[k].v

NoPattern == [segs |-> <<>>, execErr |-> {}]

\* path(v): Result<Pattern>.  Ok is a pattern over the pathname alone, Err the
\* parse failure mapped to Error::RustError.  execErr is the set of URL paths
\* on which exec of the pattern engine reports Err (empty for a sound engine)
path(v) ==
    IF WellFormed(v)
    THEN [ok |-> TRUE, pattern |-> [segs |-> v, execErr |-> {}], err |-> ""]
    ELSE [ok |-> FALSE, pattern |-> NoPattern, err |-> "failed to parse route pattern"]

\* the templates the application compiles: /users/:id, /users/me, and the
\* malformed /users/:, /( and /a/:b/:b
Templates ==
    {<<Lit("users"), Param("id")>>, <<Lit("users"), Lit("me")>>,
     <<Lit("users"), Param("")>>, <<Lit("(")>>, <<Lit("a"), Param("b"), Param("b")>>}

\* `path(..)?`: only a template that compiled gives a Pattern to register
Patterns == {path(t).pattern : t \in {u \in Templates : path(u).ok}}

\* URL paths: /users/me, /users/42, /users/ and /hello
Paths == {<<"users", "me">>, <<"users", "42">>, <<"users", "">>, <<"hello">>}

\* the two paths of the smaller serving scenario: /users/me, /users/42
ServedPaths == {<<"users", "me">>, <<"users", "42">>}

\* a pattern whose evaluation fails on /users/42
FaultyPatterns ==
    {[path(<<Lit("users"), Param("id")>>).pattern EXCEPT !.execErr = {<<"users", "42">>}]}

\* the handlers the application registers: its n-th registration call passes
\* a closure of its own
HandlerName(n) == CASE n = 1 -> "h1" [] n = 2 -> "h2" [] n = 3 -> "h3" [] OTHER -> "h4"
Handlers == {HandlerName(n) : n \in 1..MaxRoutes}
NextHandler == {HandlerName(Len(registered) + 1)}

\* the State instance given to new_with_state, and any other instance
GivenState == "state0"

\* a request: its method and its URL, which req.url() may fail to parse
Url(p) == [valid |-> TRUE, path |-> p]
BadUrl == [valid |-> FALSE, path |-> <<>>]
Requests(ms, ps) == [method : ms, url : {Url(p) : p \in ps} \cup {BadUrl}]

NoReq == [method |-> "", url |-> BadUrl]
NoResult == [tag |-> "None", status |-> 0, body |-> ""]
NoArg == [req |-> NoReq, state |-> ""]

\* Result<Response>: Ok(response) or Err(error); Panic is the abnormal end
OkResponse(status, body) == [tag |-> "Ok", status |-> status, body |-> body]
ErrResult(msg) == [tag |-> "Err", status |-> 0, body |-> msg]
Panicked == [tag |-> "Panic", status |-> 0, body |-> "unwrap on Err"]

\* ResponseBuilder::new().error(msg, status): an error response needs a 4xx/5xx status
ResponseError(msg, status) ==
    IF status \in 400..599
    THEN OkResponse(status, msg)
    ELSE ErrResult("error status codes must be in the 400-599 range")

NotFoundStatus == 404

\* mutant: the default response with another status
NotFoundAsBadRequest == ResponseError("page not found", 400)

\* line 136
NotFoundResponse == ResponseError("page not found", NotFoundStatus)

\* what a handler may produce: a response of its own, or a failure
HandlerResults(h) == {OkResponse(200, h), ErrResult(h)}

----------------------------------------------------------------------------
(* The pattern engine *)

\* a literal segment matches verbatim, a named parameter one non-empty segment
SegMatches(seg, s) ==
    IF seg.kind = "lit" THEN seg.v = s ELSE s # ""

PathMatches(segs, p) ==
    /\ Len(segs) = Len(p)
    /\ \A k \in 1..Len(segs) : SegMatches(segs[k], p[k])

\* pattern.0.exec(UrlPatternMatchInput::Url(url)): Result<Option<_>, Error>
exec(pattern, url) ==
    IF url.path \in pattern.execErr THEN "Err"
    ELSE IF PathMatches(pattern.segs, url.path) THEN "Some"
    ELSE "None"

\* req.url(): Result<Url>
req_url(req) == req.url.valid

----------------------------------------------------------------------------
(* Registration *)

Router == [state |-> state, routes |-> routes]

\* Router::new_with_state
new_with_state(s) == [state |-> s, routes |-> <<>>]

\* mutant: the new route goes to the front of the list
insert_front(self, method, pattern, handler) ==
    [self EXCEPT !.routes =
        <<[method |-> method, pattern |-> pattern, handler |-> handler]>> \o @]

\* Router::insert
insert(self, method, pattern, handler) ==
    [self EXCEPT !.routes =
        Append(@, [method |-> method, pattern |-> pattern, handler |-> handler])]

\* insert_method!(name, method)
head(self, pattern, handler)    == insert(self, "HEAD", pattern, handler)
get(self, pattern, handler)     == insert(self, "GET", pattern, handler)
post(self, pattern, handler)    == insert(self, "POST", pattern, handler)
put(self, pattern, handler)     == insert(self, "PUT", pattern, handler)
\* mutant: patch registered with the method of put
patch_as_put(self, pattern, handler) == insert(self, "PUT", pattern, handler)
patch(self, pattern, handler)   == insert(self, "PATCH", pattern, handler)
delete(self, pattern, handler)  == insert(self, "DELETE", pattern, handler)
options(self, pattern, handler) == insert(self, "OPTIONS", pattern, handler)
connect(self, pattern, handler) == insert(self, "CONNECT", pattern, handler)
trace(self, pattern, handler)   == insert(self, "TRACE", pattern, handler)

IdleCall ==
    [pc |-> "idle", req |-> NoReq, log |-> <<>>, route |-> 0, handler |-> "",
     arg |-> NoArg, handlerRes |-> NoResult, result |-> NoResult]

\* A registration call moves the router (self by value), which the borrow
\* held by the future of a run call forbids: no call is in flight.
Chain(entry, pattern, handler, r) ==
    /\ Len(routes) < MaxRoutes
    /\ \A c \in Calls : calls[c].pc = "idle"
    /\ routes' = r.routes
    /\ state' = r.state
    /\ registered' = Append(registered, [entry |-> entry, pattern |-> pattern, handler |-> handler])
    /\ UNCHANGED calls

RegHead(p, h)    == Chain("head", p, h, head(Router, p, h))
RegGet(p, h)     == Chain("get", p, h, get(Router, p, h))
RegPost(p, h)    == Chain("post", p, h, post(Router, p, h))
RegPut(p, h)     == Chain("put", p, h, put(Router, p, h))
RegPatch(p, h)   == Chain("patch", p, h, patch(Router, p, h))
RegDelete(p, h)  == Chain("delete", p, h, delete(Router, p, h))
RegOptions(p, h) == Chain("options", p, h, options(Router, p, h))
RegConnect(p, h) == Chain("connect", p, h, connect(Router, p, h))
RegTrace(p, h)   == Chain("trace", p, h, trace(Router, p, h))

----------------------------------------------------------------------------
(* Dispatch *)

Event(ev, i) == [ev |-> ev, i |-> i]

\* mutant: the State is copied into a new Arc for each handler call
state_copy(s) == "copy of state0"

\* Arc::clone(&self.state)
Arc_clone(s) == s

\* the for loop of run, from route i on; log is the trace of what it has done
RECURSIVE ScanFrom(_, _, _, _)
ScanFrom(self, req, i, log) ==
    IF i > Len(self.routes)
    THEN [kind |-> "notfound", route |-> 0, handler |-> "", arg |-> NoArg,
          log |-> log, result |-> NotFoundResponse]
    ELSE LET route == self.routes[i]
             log1 == Append(log, Event("method", i))
         IN  IF route.method # req.method
             THEN ScanFrom(self, req, i + 1, log1)
             ELSE LET res == exec(route.pattern, req.url)
                      log2 == Append(log1, Event("exec", i))
                  IN  IF res = "Err"
                      THEN [kind |-> "panic", route |-> 0, handler |-> "", arg |-> NoArg,
                            log |-> log2, result |-> Panicked]
                      ELSE IF res = "Some"
                      THEN [kind |-> "invoke", route |-> i, handler |-> route.handler,
                            arg |-> [req |-> req, state |-> Arc_clone(self.state)],
                            log |-> Append(log2, Event("invoke", i)), result |-> NoResult]
                      ELSE ScanFrom(self, req, i + 1, log2)

\* mutant: the loop remembers a match and keeps scanning, so the last match wins
ScanLastMatch(self, req) ==
    LET first == ScanFrom(self, req, 1, <<>>)
        m == {i \in 1..Len(self.routes) :
                 /\ self.routes[i].method = req.method
                 /\ exec(self.routes[i].pattern, req.url) = "Some"}
    IN  IF first.kind # "invoke" THEN first
        ELSE LET j == CHOOSE x \in m : \A y \in m : y <= x
             IN  [first EXCEPT !.route = j, !.handler = self.routes[j].handler,
                               !.log = Append(SubSeq(first.log, 1, Len(first.log) - 1),
                                              Event("invoke", j))]

\* mutant: the pattern of every route is evaluated, and the method compared after
RECURSIVE ScanExecFirstFrom(_, _, _, _)
ScanExecFirstFrom(self, req, i, log) ==
    IF i > Len(self.routes)
    THEN [kind |-> "notfound", route |-> 0, handler |-> "", arg |-> NoArg,
          log |-> log, result |-> NotFoundResponse]
    ELSE LET route == self.routes[i]
             res == exec(route.pattern, req.url)
             log2 == Append(Append(log, Event("exec", i)), Event("method", i))
         IN  IF res = "Some" /\ route.method = req.method
             THEN [kind |-> "invoke", route |-> i, handler |-> route.handler,
                   arg |-> [req |-> req, state |-> Arc_clone(self.state)],
                   log |-> Append(log2, Event("invoke", i)), result |-> NoResult]
             ELSE ScanExecFirstFrom(self, req, i + 1, log2)

ScanExecFirst(self, req) == ScanExecFirstFrom(self, req, 1, <<>>)

Scan(self, req) == ScanFrom(self, req, 1, <<>>)

\* mutant: the URL is parsed only once a route of the request method is found
run_late_url(self, req) ==
    IF ~req_url(req) /\ \E i \in 1..Len(self.routes) : self.routes[i].method = req.method
    THEN LET i == CHOOSE x \in 1..Len(self.routes) :
                      /\ self.routes[x].method = req.method
                      /\ \A y \in 1..(x - 1) : self.routes[y].method # req.method
         IN  [kind |-> "urlerr", route |-> 0, handler |-> "", arg |-> NoArg,
              log |-> [n \in 1..i |-> Event("method", n)], result |-> ErrResult("url")]
    ELSE Scan(self, req)

\* run up to its await: `let url = req.url()?;` and then the scan
run_sync(self, req) ==
    IF ~req_url(req)
    THEN [kind |-> "urlerr", route |-> 0, handler |-> "", arg |-> NoArg,
          log |-> <<>>, result |-> ErrResult("url")]
    ELSE Scan(self, req)

\* mutant: a failed handler falls back to the default response
await_or_not_found(res) == IF res.tag = "Err" THEN NotFoundResponse ELSE res

\* `return (route.handler)(..).await`: what the handler returns is what run returns
await_result(res) == res

\* mutant: run moves the first route to the back of the list
after_run_rotate(self) ==
    [self EXCEPT !.routes = IF Len(@) > 1 THEN Append(Tail(@), Head(@)) ELSE @]

\* run takes &self: the router after a run call
after_run(self) == self

RunBegin(c, req) ==
    /\ calls[c].pc = "idle"
    /\ LET o == run_sync(Router, req)
       IN  calls' = [calls EXCEPT ![c] =
               [pc |-> IF o.kind = "invoke" THEN "await" ELSE "done",
                req |-> req, log |-> o.log, route |-> o.route, handler |-> o.handler,
                arg |-> o.arg, handlerRes |-> NoResult, result |-> o.result]]
    /\ routes' = after_run(Router).routes
    /\ state' = after_run(Router).state
    /\ UNCHANGED registered

HandlerReturn(c, res) ==
    /\ calls[c].pc = "await"
    /\ res \in HandlerResults(calls[c].handler)
    /\ calls' = [calls EXCEPT ![c].pc = "done", ![c].handlerRes = res,
                              ![c].result = await_result(res)]
    /\ routes' = after_run(Router).routes
    /\ state' = after_run(Router).state
    /\ UNCHANGED registered

\* the caller takes the result and the record of the call is dropped
Release(c) ==
    /\ calls[c].pc = "done"
    /\ calls' = [calls EXCEPT ![c] = IdleCall]
    /\ UNCHANGED <<state, routes, registered>>

----------------------------------------------------------------------------
(* Specifications *)

Init ==
    /\ state = new_with_state(GivenState).state
    /\ routes = new_with_state(GivenState).routes
    /\ calls = [c \in Calls |-> IdleCall]
    /\ registered = <<>>

\* the whole registration surface, one request served at a time
Next ==
    \/ \E p \in Patterns, h \in NextHandler : RegHead(p, h)
    \/ \E p \in Patterns, h \in NextHandler : RegGet(p, h)
    \/ \E p \in Patterns, h \in NextHandler : RegPost(p, h)
    \/ \E p \in Patterns, h \in NextHandler : RegPut(p, h)
    \/ \E p \in Patterns, h \in NextHandler : RegPatch(p, h)
    \/ \E p \in Patterns, h \in NextHandler : RegDelete(p, h)
    \/ \E p \in Patterns, h \in NextHandler : RegOptions(p, h)
    \/ \E p \in Patterns, h \in NextHandler : RegConnect(p, h)
    \/ \E p \in Patterns, h \in NextHandler : RegTrace(p, h)
    \/ \E req \in Requests(Methods, Paths) : RunBegin(1, req)
    \/ \E res \in UNION {HandlerResults(h) : h \in Handlers} : HandlerReturn(1, res)
    \/ Release(1)

Spec == Init /\ [][Next]_vars

\* many requests in flight on a router with GET and POST routes
NextConc ==
    \/ \E p \in Patterns, h \in NextHandler : RegGet(p, h)
    \/ \E p \in Patterns, h \in NextHandler : RegPost(p, h)
    \/ \E c \in Calls, req \in Requests(ServedMethods, ServedPaths) : RunBegin(c, req)
    \/ \E c \in Calls, res \in UNION {HandlerResults(h) : h \in Handlers} : HandlerReturn(c, res)
    \/ \E c \in Calls : Release(c)

SpecConc == Init /\ [][NextConc]_vars

\* the pattern engine may report an error when a pattern is evaluated
NextExecErr ==
    \/ \E p \in Patterns \cup FaultyPatterns, h \in NextHandler : RegGet(p, h)
    \/ \E p \in Patterns \cup FaultyPatterns, h \in NextHandler : RegPost(p, h)
    \/ \E req \in Requests(ServedMethods, Paths) : RunBegin(1, req)
    \/ \E res \in UNION {HandlerResults(h) : h \in Handlers} : HandlerReturn(1, res)
    \/ Release(1)

SpecExecErr == Init /\ [][NextExecErr]_vars

----------------------------------------------------------------------------
(* Properties *)

\* the routes that match a request: same method, and the pattern matches the path
RouteMatches(r, req) ==
    /\ req.url.valid
    /\ r.method = req.method
    /\ PathMatches(r.pattern.segs, req.url.path)

Matching(req) == {i \in 1..Len(routes) : RouteMatches(routes[i], req)}

Lowest(S) == CHOOSE x \in S : \A y \in S : x <= y

IsMethodCheck(e) == e.ev = "method"
IsExec(e) == e.ev = "exec"
IsInvoke(e) == e.ev = "invoke"

MethodChecks(c) == SelectSeq(calls[c].log, IsMethodCheck)
Invocations(c) == SelectSeq(calls[c].log, IsInvoke)

Began(c) == calls[c].pc # "idle"
Returned(c) == calls[c].pc = "done"

PageNotFound == [tag |-> "Ok", status |-> 404, body |-> "page not found"]

\* C1: a request that matches two or more routes has the handler of the
\* lowest-indexed matching route invoked, once, and no handler of a later route.
C1_FirstMatchWins ==
    \A c \in Calls :
        (Began(c) /\ Cardinality(Matching(calls[c].req)) >= 2) =>
            LET lo == Lowest(Matching(calls[c].req))
            IN  /\ Invocations(c) = <<Event("invoke", lo)>>
                /\ calls[c].route = lo
                /\ calls[c].handler = routes[lo].handler
                /\ Returned(c) => calls[c].result \in HandlerResults(routes[lo].handler)

\* two routes with the same method and pattern and different handlers; the
\* request was answered by the first
C1_Witness ==
    /\ Len(routes) = 2
    /\ routes[1].method = routes[2].method
    /\ routes[1].pattern = routes[2].pattern
    /\ routes[1].handler # routes[2].handler
    /\ Returned(1)
    /\ Matching(calls[1].req) = {1, 2}
    /\ calls[1].result = OkResponse(200, routes[1].handler)

\* C2: a request with a parseable URL that no route matches gets no handler
\* invoked and the successful response 404 "page not found".
C2_NoMatchIs404 ==
    \A c \in Calls :
        (Began(c) /\ calls[c].req.url.valid /\ Matching(calls[c].req) = {}) =>
            /\ Returned(c)
            /\ Invocations(c) = <<>>
            /\ calls[c].route = 0
            /\ calls[c].result = PageNotFound

\* a route of the request method whose pattern does not match the path, and
\* a route of another method whose pattern does
C2_Witness ==
    /\ Len(routes) = 2
    /\ Returned(1)
    /\ calls[1].req.url.valid
    /\ routes[1].method = calls[1].req.method
    /\ ~PathMatches(routes[1].pattern.segs, calls[1].req.url.path)
    /\ routes[2].method # calls[1].req.method
    /\ PathMatches(routes[2].pattern.segs, calls[1].req.url.path)
    /\ calls[1].result = PageNotFound

\* C3: when the handler of the first matching route fails, run returns that
\* failure: the handler ran once, no later route was examined, and the result
\* is not the default response.
C3_HandlerFailureIsFinal ==
    \A c \in Calls :
        (Returned(c) /\ calls[c].handlerRes.tag = "Err") =>
            /\ calls[c].result = calls[c].handlerRes
            /\ calls[c].result # PageNotFound
            /\ calls[c].route = Lowest(Matching(calls[c].req))
            /\ Invocations(c) = <<Event("invoke", calls[c].route)>>
            /\ \A k \in 1..Len(calls[c].log) : calls[c].log[k].i <= calls[c].route

\* the first of two matching routes failed, and its failure is the result
C3_Witness ==
    /\ Returned(1)
    /\ Matching(calls[1].req) = {1, 2}
    /\ calls[1].handlerRes = ErrResult(routes[1].handler)
    /\ calls[1].result = ErrResult(routes[1].handler)

\* C4: a request whose URL does not parse is answered with that failure
\* before any route is examined, and never with the default response.
C4_UrlParseFailure ==
    \A c \in Calls :
        (Began(c) /\ ~calls[c].req.url.valid) =>
            /\ Returned(c)
            /\ calls[c].result.tag = "Err"
            /\ calls[c].result # PageNotFound
            /\ calls[c].log = <<>>
            /\ calls[c].route = 0

\* an unparseable URL on a router with two routes of the request method
C4_Witness ==
    /\ Len(routes) = 2
    /\ Returned(1)
    /\ ~calls[1].req.url.valid
    /\ routes[1].method = calls[1].req.method
    /\ routes[2].method = calls[1].req.method
    /\ calls[1].result.tag = "Err"

\* C5: every run call ends by returning a response or an error result; a
\* failed pattern evaluation is returned as an error result, never a panic.
C5_FailuresAreResults ==
    \A c \in Calls :
        Returned(c) =>
            /\ calls[c].result.tag \in {"Ok", "Err"}
            /\ (\E k \in 1..Len(calls[c].log) :
                    /\ calls[c].log[k].ev = "exec"
                    /\ exec(routes[calls[c].log[k].i].pattern, calls[c].req.url) = "Err")
               => calls[c].result.tag = "Err"

\* C6: a registration call adds its route at the end of the list and leaves
\* the earlier routes and the state handle as they were; the list is the
\* routes of the calls made so far, in call order.
C6_RegistrationAppends ==
    [][ /\ registered' # registered =>
            /\ Len(routes') = Len(routes) + 1
            /\ SubSeq(routes', 1, Len(routes)) = routes
            /\ state' = state
        /\ Len(routes') = Len(registered')
        /\ \A i \in 1..Len(routes') :
              /\ routes'[i].pattern = registered'[i].pattern
              /\ routes'[i].handler = registered'[i].handler ]_vars

\* the same method and pattern registered twice, with two handlers
C6_Witness ==
    /\ Len(registered) = 2
    /\ registered[1].entry = registered[2].entry
    /\ registered[1].pattern = registered[2].pattern
    /\ registered[1].handler # registered[2].handler
    /\ Len(routes) = 2
    /\ routes[1].handler = registered[1].handler
    /\ routes[2].handler = registered[2].handler

\* the method each registration entry point stands for
EntryMethod(e) ==
    CASE e = "head" -> "HEAD"
      [] e = "get" -> "GET"
      [] e = "post" -> "POST"
      [] e = "put" -> "PUT"
      [] e = "patch" -> "PATCH"
      [] e = "delete" -> "DELETE"
      [] e = "options" -> "OPTIONS"
      [] e = "connect" -> "CONNECT"
      [] e = "trace" -> "TRACE"

\* C7: a route registered through an entry point carries the method of that
\* entry point, and run selects it only for requests of that method.
C7_PerMethodRegistration ==
    /\ Len(routes) = Len(registered)
    /\ \A i \in 1..Len(routes) : routes[i].method = EntryMethod(registered[i].entry)
    /\ \A c \in Calls :
           calls[c].route # 0 =>
               calls[c].req.method = EntryMethod(registered[calls[c].route].entry)

\* a PATCH request went to the route registered by patch, past a put route
\* with the same pattern
C7_Witness ==
    /\ Len(routes) = 2
    /\ registered[1].entry = "put"
    /\ registered[2].entry = "patch"
    /\ routes[1].pattern = routes[2].pattern
    /\ Returned(1)
    /\ calls[1].req.method = "PATCH"
    /\ calls[1].route = 2
    /\ calls[1].result = OkResponse(200, routes[2].handler)

\* C8: the router keeps the State handle it was built with, and every
\* handler invocation receives that handle.
C8_SharedStateIdentity ==
    /\ state = GivenState
    /\ \A c \in Calls :
           calls[c].route # 0 =>
               /\ calls[c].arg.state = GivenState
               /\ calls[c].arg.req = calls[c].req

\* two handlers suspended at once, both holding the handle
C8_Witness ==
    /\ calls[1].pc = "await"
    /\ calls[2].pc = "await"
    /\ calls[1].arg.state = GivenState
    /\ calls[2].arg.state = GivenState

\* what run gives for a request served alone on the current router
RouteAlone(req) ==
    IF Matching(req) = {} THEN 0 ELSE Lowest(Matching(req))

OutcomeAlone(c) ==
    LET req == calls[c].req
    IN  /\ calls[c].route = RouteAlone(req)
        /\ Returned(c) =>
              IF ~req.url.valid THEN calls[c].result.tag = "Err"
              ELSE IF Matching(req) = {} THEN calls[c].result = PageNotFound
              ELSE /\ calls[c].result = calls[c].handlerRes
                   /\ calls[c].result \in HandlerResults(routes[RouteAlone(req)].handler)

\* C9: with calls in flight in any interleaving, each call selects the route
\* and returns the outcome it would alone; a step of a run call changes
\* neither the route list nor the state handle, nor the record of another call.
C9_ConcurrentDispatch ==
    [][ /\ registered' = registered => (routes' = routes /\ state' = state)
        /\ \A c \in Calls : Began(c)' => OutcomeAlone(c)'
        /\ Cardinality({c \in Calls : calls'[c] # calls[c]}) <= 1
        /\ \A c \in Calls :
              (Began(c) /\ Began(c)') =>
                  /\ calls'[c].req = calls[c].req
                  /\ calls'[c].route = calls[c].route
                  /\ calls'[c].log = calls[c].log ]_vars

\* a call returned while another was suspended in its handler
C9_Witness ==
    /\ calls[1].pc = "await"
    /\ calls[1].route = 1
    /\ Returned(2)
    /\ calls[2].route = 2
    /\ calls[2].result = OkResponse(200, routes[2].handler)

\* C10: routes are examined in registration order from the first; a pattern
\* is evaluated only right after the method of its route compared equal;
\* the handler is invoked only right after its pattern matched, and ends the
\* scan; nothing after the first matching route is examined.
C10_ScanOrder ==
    \A c \in Calls :
        Began(c) =>
            LET log == calls[c].log
                req == calls[c].req
                n == Len(MethodChecks(c))
            IN  /\ MethodChecks(c) = [k \in 1..n |-> Event("method", k)]
                /\ n <= Len(routes)
                /\ Len(Invocations(c)) <= 1
                /\ \A k \in 1..Len(log) :
                      /\ log[k].ev = "exec" =>
                            /\ k > 1
                            /\ log[k - 1] = Event("method", log[k].i)
                            /\ routes[log[k].i].method = req.method
                      /\ log[k].ev = "invoke" =>
                            /\ k > 1
                            /\ k = Len(log)
                            /\ log[k - 1] = Event("exec", log[k].i)
                            /\ log[k].i = Lowest(Matching(req))
                      /\ Matching(req) # {} => log[k].i <= Lowest(Matching(req))
                /\ (req.url.valid /\ Matching(req) = {}) => n = Len(routes)
                /\ (req.url.valid /\ Matching(req) # {}) => n = Lowest(Matching(req))

\* the first route was skipped on its method, the second matched and ran
C10_Witness ==
    /\ Len(routes) = 2
    /\ Returned(1)
    /\ routes[1].method # calls[1].req.method
    /\ PathMatches(routes[1].pattern.segs, calls[1].req.url.path)
    /\ calls[1].log = <<Event("method", 1), Event("method", 2), Event("exec", 2),
                        Event("invoke", 2)>>

====
